---------------------------- MODULE Spec2Model ----------------------------
(***************************************************************************)
(* The SKILL.md frontmatter parser of src/validate-skill.js               *)
(* (parseFrontmatter, parseYamlBlock), the validator that consumes its    *)
(* mapping (validate), and the ClawPost command line of src/cli.js        *)
(* (main, makeRequest, the commands, setupWizard).  Each of the three is  *)
(* a specification of its own: Spec, ValidateSpec, CliSpec.               *)
(*                                                                         *)
(* A text is a sequence of one-character strings.  A JavaScript value is a *)
(* tagged record [t |-> <typeof-like tag>, v |-> <payload>]; a mapping is  *)
(* a function from keys (texts) to values.  The line index i of            *)
(* parseYamlBlock is 0-based as in the source; lines[i + 1] is lines[i].   *)
(***************************************************************************)
EXTENDS Integers, Sequences, FiniteSets, TLC

VARIABLES
    entry,    \* the function that was called: "parseFrontmatter" | "parseYamlBlock"
    content,  \* the text handed to it
    orig,     \* the entries the text was serialised from (<< >> when it was not)
    pc,       \* "call" | "loop" | "nested" | "done"
    lines,    \* parseYamlBlock: const lines
    i,        \* parseYamlBlock: let i
    result,   \* parseYamlBlock: const result
    ret,      \* the value returned (Pending until the call returns)
    iters,    \* completed iterations of the while loop of the outer call
    log,      \* the assignments result[key] = value of the outer call, in order
    \* validate-skill.js, validate and the main lines under it
    exists,   \* fs.existsSync(filePath)
    fileSize, \* fs.statSync(filePath).size
    vpc,      \* the check validate is about to run, or how the run ended
    fm,       \* const fm
    errors,   \* let errors
    warnings, \* let warnings
    returned, \* the value validate returned, NoExit until it returns
    \* either program
    out,      \* what was written to the console: the kinds of the lines of
              \* pass, fail, warn and info; the messages of cli.js by name
    exitCode, \* the exit status of the process, NoExit while it runs
    \* cli.js
    envKey,       \* process.env.CLAW_API_KEY
    API_KEY,      \* const API_KEY of the module, read when it is loaded
    command,      \* args[0]
    argc,         \* how many arguments follow the command
    cpc,          \* where the command is in its code, or "exited"
    caller,       \* who awaits makeRequest
    requests,     \* the curl processes spawned, each with how it ended
    thrown,       \* the error makeRequest threw last, "none" before any
    inputKey,     \* setupWizard: const inputKey
    configFile,   \* ~/.openclaw/openclaw.json
    configBefore, \* that file when the process started
    saveCalls     \* the arguments of the calls of saveApiKeyToConfig

parserVars == <<entry, content, orig, pc, lines, i, result, ret, iters, log>>

validateVars == <<exists, fileSize, vpc, fm, errors, warnings, returned>>

cliVars ==
    <<envKey, API_KEY, command, argc, cpc, caller, requests, thrown, inputKey,
      configFile, configBefore, saveCalls>>

vars == <<parserVars, validateVars, out, exitCode, cliVars>>

\* returned and exitCode while there is none
NoExit == -1

\* The validator has not been started.
ValidateNotStarted ==
    /\ exists = FALSE
    /\ fileSize = 0
    /\ vpc = "idle"
    /\ fm = [t |-> "pending"]
    /\ errors = 0
    /\ warnings = 0
    /\ returned = NoExit

\* Nothing has been written and the process has not ended.
ProcessRuns ==
    /\ out = << >>
    /\ exitCode = NoExit

\* cli.js has not been started.
CliNotStarted ==
    /\ envKey = [t |-> "undefined"]
    /\ API_KEY = [t |-> "undefined"]
    /\ command = ""
    /\ argc = 0
    /\ cpc = "idle"
    /\ caller = ""
    /\ requests = << >>
    /\ thrown = "none"
    /\ inputKey = << >>
    /\ configFile = [t |-> "absent"]
    /\ configBefore = [t |-> "absent"]
    /\ saveCalls = << >>

\* The parser has not been called on its own.
ParserNotStarted ==
    /\ orig = << >>
    /\ pc = "idle"
    /\ lines = << >>
    /\ i = 0
    /\ result = << >>
    /\ ret = [t |-> "pending"]
    /\ iters = 0
    /\ log = << >>

---------------------------------------------------------------------------
(* Bounds of the inputs *)

MaxLines == 3

MaxEntries == 2

\* A loop that advances runs at most Len(lines) <= MaxLines + 2 times; a
\* loop that does not advance is followed for this many iterations.
IterCap == MaxLines + 4

---------------------------------------------------------------------------
(* JavaScript values *)

Null == [t |-> "null"]

Pending == [t |-> "pending"]

Str(s) == [t |-> "string", v |-> s]

Bool(b) == [t |-> "boolean", v |-> b]

Num(s) == [t |-> "number", v |-> s]

Arr(a) == [t |-> "array", v |-> a]

Obj(m) == [t |-> "object", v |-> m]

EmptyMap == << >>

\* Put that keeps the value a key already has
PutIfAbsent(m, k, val) ==
    [x \in (DOMAIN m) \cup {k} |-> IF x \in DOMAIN m THEN m[x] ELSE val]

\* result[key] = value
Put(m, k, val) == [x \in (DOMAIN m) \cup {k} |-> IF x = k THEN val ELSE m[x]]

---------------------------------------------------------------------------
(* Characters and the string primitives the parser uses *)

Digits == {"0", "1", "2", "3", "4", "5", "6", "7", "8", "9"}

Lower == {"a", "b", "c", "d", "e", "f", "g", "h", "i", "j", "k", "l", "m",
          "n", "o", "p", "q", "r", "s", "t", "u", "v", "w", "x", "y", "z"}

Upper == {"A", "B", "C", "D", "E", "F", "G", "H", "I", "J", "K", "L", "M",
          "N", "O", "P", "Q", "R", "S", "T", "U", "V", "W", "X", "Y", "Z"}

\* \s over the characters of the model
Spaces == {" ", "\t", "\r", "\n"}

IsSpace(c) == c \in Spaces

\* \w
WordChars == Digits \cup Lower \cup Upper \cup {"_"}

\* [\w.-]
KeyChars == WordChars \cup {".", "-"}

\* . (no s flag) is anything but a line terminator
LineTerminators == {"\n", "\r"}

\* A greedy run of characters of S from position p: the first position
\* q >= p of s with s[q] \notin S, Len(s) + 1 when there is none.
SkipIn(s, p, S) ==
    CHOOSE q \in p..(Len(s) + 1) :
        /\ q = Len(s) + 1 \/ s[q] \notin S
        /\ \A j \in p..(q - 1) : s[j] \in S

\* A run of characters outside S from position p: the first position
\* q >= p of s with s[q] \in S, Len(s) + 1 when there is none.
SkipNotIn(s, p, S) ==
    CHOOSE q \in p..(Len(s) + 1) :
        /\ q = Len(s) + 1 \/ s[q] \in S
        /\ \A j \in p..(q - 1) : s[j] \notin S

\* Whether text s holds text w at position p.
HasAt(s, p, w) ==
    /\ p >= 1
    /\ p + Len(w) - 1 <= Len(s)
    /\ \A j \in 1..Len(w) : s[p + j - 1] = w[j]

\* String.prototype.startsWith / endsWith
StartsWith(s, w) == HasAt(s, 1, w)

EndsWith(s, w) == HasAt(s, Len(s) - Len(w) + 1, w)

\* String.prototype.trim
Trim(s) ==
    LET a == SkipIn(s, 1, Spaces)
    IN  IF a > Len(s) THEN << >>
        ELSE LET b == CHOOSE q \in a..Len(s) :
                          /\ ~IsSpace(s[q])
                          /\ \A j \in (q + 1)..Len(s) : IsSpace(s[j])
             IN  SubSeq(s, a, b)

\* value.slice(1, -1)
Slice1(s) == SubSeq(s, 2, Len(s) - 1)

\* text.split('\n')
RECURSIVE SplitFrom(_, _)
SplitFrom(s, p) ==
    LET q == SkipNotIn(s, p, {"\n"})
    IN  IF q > Len(s) THEN <<SubSeq(s, p, Len(s))>>
        ELSE <<SubSeq(s, p, q - 1)>> \o SplitFrom(s, q + 1)

Split(s) == SplitFrom(s, 1)

\* lines.join('\n')
RECURSIVE Join(_)
Join(ls) ==
    IF Len(ls) = 0 THEN << >>
    ELSE IF Len(ls) = 1 THEN ls[1]
    ELSE ls[1] \o <<"\n">> \o Join(Tail(ls))

\* /^\s*$/.test(line)
IsBlank(line) == \A k \in 1..Len(line) : IsSpace(line[k])

\* /^\s*#/.test(line)
IsComment(line) ==
    LET p == SkipIn(line, 1, Spaces)
    IN  p <= Len(line) /\ line[p] = "#"

\* line.search(/\S/): 0-based index of the first non-space, -1 when none
Indent(line) ==
    LET p == SkipIn(line, 1, Spaces)
    IN  IF p > Len(line) THEN -1 ELSE p - 1

\* line.match(/^(\s*)([\w.-]+)\s*:\s*(.*)/): the three classes \s, [\w.-]
\* and ':' are disjoint, so the greedy match is the only one.
KvMatch(line) ==
    LET k0 == SkipIn(line, 1, Spaces)
        k1 == SkipIn(line, k0, KeyChars)
        c  == SkipIn(line, k1, Spaces)
        v0 == SkipIn(line, c + 1, Spaces)
        v1 == SkipNotIn(line, v0, LineTerminators)
    IN  IF k1 > k0 /\ c <= Len(line) /\ line[c] = ":"
        THEN [ok |-> TRUE, key |-> SubSeq(line, k0, k1 - 1),
              value |-> SubSeq(line, v0, v1 - 1)]
        ELSE [ok |-> FALSE, key |-> << >>, value |-> << >>]

---------------------------------------------------------------------------
(* JSON.parse, as far as the parser relies on it: objects, arrays, strings  *)
(* (escapes \" \\ \/ \n \r \t; \b \f \uXXXX are outside the modelled        *)
(* characters), numbers, true / false / null, insignificant whitespace.     *)

\* The character at position p, "" past either end.
At(s, p) == IF p >= 1 /\ p <= Len(s) THEN s[p] ELSE ""

IsDigit(c) == c \in Digits

JsonFail == [ok |-> FALSE, val |-> Null, pos |-> 0]

JsonOk(val, pos) == [ok |-> TRUE, val |-> val, pos |-> pos]

Unescape(c) ==
    IF c = "n" THEN "\n" ELSE IF c = "r" THEN "\r" ELSE IF c = "t" THEN "\t" ELSE c

\* The rest of a string literal whose opening quote precedes position p.
RECURSIVE JsonStringBody(_, _, _)
JsonStringBody(s, p, acc) ==
    LET c == At(s, p)
    IN  IF c = "" \/ c \in {"\t", "\n", "\r"} THEN JsonFail
        ELSE IF c = "\"" THEN JsonOk(Str(acc), p + 1)
        ELSE IF c = "\\"
            THEN IF At(s, p + 1) \in {"\"", "\\", "/", "n", "r", "t"}
                 THEN JsonStringBody(s, p + 2, Append(acc, Unescape(At(s, p + 1))))
                 ELSE JsonFail
        ELSE JsonStringBody(s, p + 1, Append(acc, c))

\* -?(0|[1-9][0-9]*)(\.[0-9]+)?([eE][+-]?[0-9]+)?
JsonNumber(s, p) ==
    LET a  == IF At(s, p) = "-" THEN p + 1 ELSE p
        n  == IF At(s, a) = "0" THEN a + 1 ELSE SkipIn(s, a, Digits)
        f0 == n + 1
        f  == IF At(s, n) = "." THEN SkipIn(s, f0, Digits) ELSE n
        e0 == IF At(s, f + 1) \in {"+", "-"} THEN f + 2 ELSE f + 1
        e  == IF At(s, f) \in {"e", "E"} THEN SkipIn(s, e0, Digits) ELSE f
    IN  IF a > Len(s) \/ n = a THEN JsonFail
        ELSE IF At(s, n) = "." /\ f = f0 THEN JsonFail
        ELSE IF At(s, f) \in {"e", "E"} /\ (e0 > Len(s) \/ e = e0) THEN JsonFail
        ELSE JsonOk(Num(SubSeq(s, p, e - 1)), e)

RECURSIVE JsonValue(_, _), JsonElements(_, _, _), JsonMembers(_, _, _)

\* The value that starts at or after position p (leading whitespace skipped).
JsonValue(s, p) ==
    LET q == SkipIn(s, p, Spaces)
        c == At(s, q)
    IN  IF c = "{"
            THEN LET r == SkipIn(s, q + 1, Spaces)
                 IN  IF At(s, r) = "}" THEN JsonOk(Obj(EmptyMap), r + 1)
                     ELSE JsonMembers(s, r, EmptyMap)
        ELSE IF c = "["
            THEN LET r == SkipIn(s, q + 1, Spaces)
                 IN  IF At(s, r) = "]" THEN JsonOk(Arr(<< >>), r + 1)
                     ELSE JsonElements(s, r, << >>)
        ELSE IF c = "\"" THEN JsonStringBody(s, q + 1, << >>)
        ELSE IF c = "-" \/ IsDigit(c) THEN JsonNumber(s, q)
        ELSE IF HasAt(s, q, <<"t", "r", "u", "e">>) THEN JsonOk(Bool(TRUE), q + 4)
        ELSE IF HasAt(s, q, <<"f", "a", "l", "s", "e">>) THEN JsonOk(Bool(FALSE), q + 5)
        ELSE IF HasAt(s, q, <<"n", "u", "l", "l">>) THEN JsonOk(Null, q + 4)
        ELSE JsonFail

\* value (, value)* ]
JsonElements(s, p, acc) ==
    LET e == JsonValue(s, p)
        q == SkipIn(s, e.pos, Spaces)
    IN  IF ~e.ok THEN JsonFail
        ELSE IF At(s, q) = "]" THEN JsonOk(Arr(Append(acc, e.val)), q + 1)
        ELSE IF At(s, q) = "," THEN JsonElements(s, q + 1, Append(acc, e.val))
        ELSE JsonFail

\* string : value (, string : value)* }
JsonMembers(s, p, acc) ==
    LET q == SkipIn(s, p, Spaces)
        k == IF At(s, q) = "\"" THEN JsonStringBody(s, q + 1, << >>) ELSE JsonFail
        c == SkipIn(s, k.pos, Spaces)
        e == JsonValue(s, c + 1)
        d == SkipIn(s, e.pos, Spaces)
    IN  IF ~k.ok \/ At(s, c) # ":" THEN JsonFail
        ELSE IF ~e.ok THEN JsonFail
        ELSE IF At(s, d) = "}" THEN JsonOk(Obj(Put(acc, k.val.v, e.val)), d + 1)
        ELSE IF At(s, d) = "," THEN JsonMembers(s, d + 1, Put(acc, k.val.v, e.val))
        ELSE JsonFail

\* A value r read from the start of s is the result when only whitespace follows.
JsonWhole(s, r) ==
    IF r.ok /\ SkipIn(s, r.pos, Spaces) > Len(s) THEN r ELSE JsonFail

\* JSON.parse(value): ok is FALSE where JSON.parse throws.
JsonParse(s) == JsonWhole(s, JsonValue(s, 1))

---------------------------------------------------------------------------
(* parseYamlBlock *)

\* What a call that never returns evaluates to.
Diverges == [t |-> "diverges"]

\* typeof x
TypeOf(val) == IF val.t \in {"array", "object", "null"} THEN "object" ELSE val.t

\* CollectChildLines with the test childIndent < indent
RECURSIVE CollectChildLinesStrict(_, _, _, _)
CollectChildLinesStrict(ls, j, indent, acc) ==
    IF j >= Len(ls) THEN [childLines |-> acc, i |-> j]
    ELSE LET childLine == ls[j + 1]
         IN  IF IsBlank(childLine) THEN CollectChildLinesStrict(ls, j + 1, indent, acc)
             ELSE IF Indent(childLine) < indent THEN [childLines |-> acc, i |-> j]
             ELSE CollectChildLinesStrict(ls, j + 1, indent, Append(acc, childLine))

\* The inner while loop: from index j on, the non-blank lines up to the
\* first non-blank line whose indentation is <= indent; i is where it stops.
RECURSIVE CollectChildLines(_, _, _, _)
CollectChildLines(ls, j, indent, acc) ==
    IF j >= Len(ls) THEN [childLines |-> acc, i |-> j]
    ELSE LET childLine == ls[j + 1]
         IN  IF IsBlank(childLine) THEN CollectChildLines(ls, j + 1, indent, acc)
             ELSE IF Indent(childLine) <= indent THEN [childLines |-> acc, i |-> j]
             ELSE CollectChildLines(ls, j + 1, indent, Append(acc, childLine))

\* childLines.length > 0 && childLines[0].trim().startsWith('- ')
IsSequenceBlock(childLines) ==
    Len(childLines) > 0 /\ StartsWith(Trim(childLines[1]), <<"-", " ">>)

\* StripDash without the trim: l.replace(/^-\s*/, '')
StripDashUntrimmed(l) ==
    IF At(l, 1) = "-" THEN SubSeq(l, SkipIn(l, 2, Spaces), Len(l)) ELSE l

\* l.trim().replace(/^-\s*/, '')
StripDash(l) ==
    LET t == Trim(l)
    IN  IF At(t, 1) = "-" THEN SubSeq(t, SkipIn(t, 2, Spaces), Len(t)) ELSE t

\* childLines.map(l => l.trim().replace(/^-\s*/, ''))
SequenceOf(childLines) ==
    Arr([k \in 1..Len(childLines) |-> Str(StripDash(childLines[k]))])

\* value === '' || value === '|' || value === '>'
OpensBlock(value) == value \in {<< >>, <<"|">>, <<">">>}

\* value.startsWith('{') / value.startsWith('[')
IsInlineJson(value) == StartsWith(value, <<"{">>) \/ StartsWith(value, <<"[">>)

\* try { result[key] = <r>; } catch { result[key] = value; }
ParsedOrRaw(r, value) == IF r.ok THEN r.val ELSE Str(value)

\* try { result[key] = JSON.parse(value); } catch { result[key] = value; }
InlineJson(value) == ParsedOrRaw(JsonParse(value), value)

\* IsDoubleQuoted without the endsWith test
IsDoubleQuotedOpenOnly(value) == StartsWith(value, <<"\"">>)

\* value.startsWith('"') && value.endsWith('"')
IsDoubleQuoted(value) == StartsWith(value, <<"\"">>) /\ EndsWith(value, <<"\"">>)

\* value.startsWith("'") && value.endsWith("'")
IsSingleQuoted(value) == StartsWith(value, <<"'">>) /\ EndsWith(value, <<"'">>)

\* The else-if chain that stores a non-block value.
Coerce(value) ==
    IF IsInlineJson(value) THEN InlineJson(value)
    ELSE IF IsDoubleQuoted(value) THEN Str(Slice1(value))
    ELSE IF IsSingleQuoted(value) THEN Str(Slice1(value))
    ELSE IF value = <<"t", "r", "u", "e">> THEN Bool(TRUE)
    ELSE IF value = <<"f", "a", "l", "s", "e">> THEN Bool(FALSE)
    ELSE Str(value)

\* The two ifs that close the loop body: whether they run i++.
Advances(val) ==
    IF TypeOf(val) # "object" THEN TRUE
    ELSE TypeOf(val) = "string" \/ TypeOf(val) = "boolean"

\* The state after one iteration of the outer while loop.  returns is FALSE
\* when the iteration calls parseYamlBlock and that call never returns.
IterationEnd(j, res, assigned) ==
    [i |-> j, result |-> res, assigned |-> assigned, returns |-> TRUE]

IterationStuck(j, res) ==
    [i |-> j, result |-> res, assigned |-> << >>, returns |-> FALSE]

RECURSIVE ParseYamlBlock(_), LoopBody(_, _, _), LineStep(_, _, _, _)
RECURSIVE KvStep(_, _, _, _, _), ValueStep(_, _, _, _, _, _)
RECURSIVE BlockStep(_, _, _, _), BlockValue(_), ParseLoop(_, _, _), LoopStep(_, _, _)

\* result[key] = val, then the two ifs that may run i++ (j is i before them).
\* A val that never arrives leaves the iteration unfinished.
Store(i0, j, res, key, val) ==
    IF val.t = "diverges" THEN IterationStuck(i0, res)
    ELSE IterationEnd(IF Advances(val) THEN j + 1 ELSE j,
                      Put(res, key, val), <<<<key, val>>>>)

\* The value of a key that opens a block: a sequence or a nested mapping.
BlockValue(childLines) ==
    IF IsSequenceBlock(childLines) THEN SequenceOf(childLines)
    ELSE ParseYamlBlock(Join(childLines))

\* The branch value === '' || value === '|' || value === '>', the child
\* lines collected (c.childLines) and i left at c.i.
BlockStep(i0, res, key, c) == Store(i0, c.i, res, key, BlockValue(c.childLines))

\* The if / else-if chain on value.
ValueStep(ls, i0, res, indent, key, value) ==
    IF OpensBlock(value)
    THEN BlockStep(i0, res, key, CollectChildLines(ls, i0 + 1, indent, << >>))
    ELSE Store(i0, i0, res, key, Coerce(value))

\* if (!kvMatch) { i++; continue; }  key = kvMatch[2], value = kvMatch[3].trim()
KvStep(ls, i0, res, indent, kvMatch) ==
    IF ~kvMatch.ok THEN IterationEnd(i0 + 1, res, << >>)
    ELSE ValueStep(ls, i0, res, indent, kvMatch.key, Trim(kvMatch.value))

\* Skip blank lines and comments, else match the line.
LineStep(ls, i0, res, line) ==
    IF IsBlank(line) \/ IsComment(line) THEN IterationEnd(i0 + 1, res, << >>)
    ELSE KvStep(ls, i0, res, Indent(line), KvMatch(line))

\* One iteration of the outer while loop, entered with i = i0 < lines.length.
LoopBody(ls, i0, res) == LineStep(ls, i0, res, ls[i0 + 1])

\* The while loop after an iteration from index j that ended as s.  The
\* control flow of an iteration depends on lines and i only, so an iteration
\* that leaves i where it was is repeated for ever.
LoopStep(ls, j, s) ==
    IF ~s.returns \/ s.i = j THEN Diverges ELSE ParseLoop(ls, s.i, s.result)

\* The while loop from index j with result = res
ParseLoop(ls, j, res) ==
    IF j >= Len(ls) THEN Obj(res) ELSE LoopStep(ls, j, LoopBody(ls, j, res))

\* parseYamlBlock(text), as a value: the mapping returned, or Diverges.
ParseYamlBlock(text) == ParseLoop(Split(text), 0, EmptyMap)

---------------------------------------------------------------------------
(* parseFrontmatter: content.match(/^---\r?\n([\s\S]*?)\r?\n---/) *)

Hyphens3 == <<"-", "-", "-">>

\* MatchOpen for /^---.*\r?\n/: anything may follow the hyphens on the line.
MatchOpenAnyTail(text) ==
    IF HasAt(text, 1, Hyphens3) /\ \E q \in 1..Len(text) : text[q] = "\n"
    THEN SkipNotIn(text, 1, {"\n"}) + 1
    ELSE 0

\* ^---\r?\n : the position after the opening delimiter, 0 when it is absent.
MatchOpen(text) ==
    IF HasAt(text, 1, Hyphens3 \o <<"\r", "\n">>) THEN 6
    ELSE IF HasAt(text, 1, Hyphens3 \o <<"\n">>) THEN 5
    ELSE 0

\* \r?\n--- at position p
ClosesAt(text, p) ==
    \/ HasAt(text, p, <<"\r", "\n">> \o Hyphens3)
    \/ HasAt(text, p, <<"\n">> \o Hyphens3)

\* FrontmatterMatch with a greedy group, ([\s\S]*)\r?\n--- : the group ends at
\* the last position where the rest matches.
FrontmatterMatchGreedy(text) ==
    LET p == MatchOpen(text)
    IN  IF p = 0 \/ ~\E q \in p..Len(text) : ClosesAt(text, q)
        THEN [ok |-> FALSE, block |-> << >>]
        ELSE LET q == CHOOSE q \in p..Len(text) :
                          ClosesAt(text, q) /\ \A j \in (q + 1)..Len(text) : ~ClosesAt(text, j)
             IN  [ok |-> TRUE, block |-> SubSeq(text, p, q - 1)]

\* ([\s\S]*?)\r?\n--- from position p: the lazy group ends at the first
\* position where the rest matches.
FrontmatterMatch(text) ==
    LET p == MatchOpen(text)
    IN  IF p = 0 \/ ~\E q \in p..Len(text) : ClosesAt(text, q)
        THEN [ok |-> FALSE, block |-> << >>]
        ELSE LET q == CHOOSE q \in p..Len(text) :
                          ClosesAt(text, q) /\ \A j \in p..(q - 1) : ~ClosesAt(text, j)
             IN  [ok |-> TRUE, block |-> SubSeq(text, p, q - 1)]

---------------------------------------------------------------------------
(* The inputs of the calls *)

\* All sequences over S of length lo..hi.
SeqsOf(S, lo, hi) == UNION {[1..n -> S] : n \in lo..hi}

\* Lines of the documents that probe the delimiters.
DelimLines ==
    { Hyphens3,                                 \* ---
      <<"-", "-", "-", "-">>,                   \* ----
      <<"-", "-", "-", "x">>,                   \* ---x
      <<" ", "-", "-", "-">>,                   \*  ---
      <<"-", "-", "-", "\r">>,                  \* --- before a CRLF line end
      << >>,                                    \* a blank line
      <<"a", ":", " ", "1">> }                  \* a: 1

DelimDocs == {Join(ls) : ls \in SeqsOf(DelimLines, 1, MaxLines + 1)}

\* Lines of the blocks that probe nesting, sequences and duplicates.
BlockLines ==
    { <<"a", ":">>,                             \* a:
      <<"b", ":", " ", "|">>,                   \* b: |
      <<"b", ":", " ", "1">>,                   \* b: 1
      <<" ", " ", "-", " ", "x">>,              \*   - x
      <<" ", " ", "-", "y">>,                   \*   -y
      <<" ", " ", "c", ":", " ", "2">>,         \*   c: 2
      <<" ", " ", "c", ":">>,                   \*   c:
      <<" ", " ", " ", " ", "d", ":", " ", "3">>,   \*     d: 3
      <<" ", " ", "#", "n">>,                   \*   #n
      <<"#", "n">>,                             \* #n
      << >>,                                    \* a blank line
      <<"a", ":", " ", "[", "1", "]">>,         \* a: [1]
      <<"j", "u", "n", "k">> }                  \* junk

BlockTexts == {Join(ls) : ls \in SeqsOf(BlockLines, 1, MaxLines)}

\* Values written after "k: " to probe the coercion of a single value.
Quotes == {<< >>, <<"\"">>, <<"'">>}

Cores ==
    { << >>, <<"x">>, <<"t", "r", "u", "e">>, <<"f", "a", "l", "s", "e">>,
      <<"T", "r", "u", "e">>, <<"x", "-", "y">>, <<"1", ".", "0", ".", "0">>,
      <<"x", " ", "y">> }

JsonLike ==
    { <<"{", "\"", "a", "\"", ":", " ", "1", "}">>,    \* {"a": 1}
      <<"{", "n", "o", "t", " ", "j", "}">>,          \* {not j}
      <<"{", "}">>,                                   \* {}
      <<"{", "\"", "a", "\"", "}">>,                  \* {"a"}
      <<"[", "1", ",", " ", "\"", "b", "\"", "]">>,    \* [1, "b"]
      <<"[", "]">>,                                   \* []
      <<"[", "1">>,                                   \* [1
      <<"[", "x", "]">>,                              \* [x]
      <<"[", "1", "]", " ", "x">>,                    \* [1] x
      <<"|">>, <<">">>, <<"|", "x">> }

ScalarValues == {l \o c \o r : l \in Quotes, c \in Cores, r \in Quotes} \cup JsonLike

Pads == {<< >>, <<" ">>}

KeyK == <<"k">>

NextLine == <<"z", ":", " ", "1">>

\* k: <value>, with or without padding around the value and a line after it
ScalarTexts ==
    {<<"k", ":">> \o l \o v \o r \o t :
        l \in Pads, v \in ScalarValues, r \in Pads, t \in {<< >>, <<"\n">> \o NextLine}}

\* A block as the frontmatter of a document
AsDocument(text) == Hyphens3 \o <<"\n">> \o text \o <<"\n">> \o Hyphens3 \o <<"\n">>

\* What follows the closing delimiter line of a document: nothing, or text
\* that holds a key: value line and a further delimiter line.
Bodies == {<< >>, <<"k", ":", " ", "9", "\n">> \o Hyphens3 \o <<"\n">>}

\* Mappings with string values, as lists of entries with distinct keys
EntryKeys == {<<"a">>, <<"b", ".", "c">>, <<"d", "-", "1">>}

EntryValues ==
    { <<"x">>, <<"t", "r", "u", "e">>, <<"f", "a", "l", "s", "e">>, << >>, <<"|">>,
      <<"\"", "x", "\"">>, <<"'", "x", "'">>, <<"\"", "x">>, <<"{", "x">>,
      <<"[", "1", "]">>, <<" ", "x">>, <<"x", ":", " ", "y">>,
      <<"1", ".", "0", ".", "0">> }

EntryLists ==
    {es \in SeqsOf(EntryKeys \X EntryValues, 1, MaxEntries) :
        \A m, n \in 1..Len(es) : m # n => es[m][1] # es[n][1]}

\* key: value lines at zero indentation, one per entry
Serialize(es) == Join([n \in 1..Len(es) |-> es[n][1] \o <<":", " ">> \o es[n][2]])

\* The mapping a list of entries stands for
MappingOf(es) ==
    [k \in {es[n][1] : n \in 1..Len(es)} |->
        Str(es[CHOOSE n \in 1..Len(es) : es[n][1] = k][2])]

---------------------------------------------------------------------------
(* The calls, step by step *)

Init ==
    /\ \/ /\ entry = "parseFrontmatter"
          /\ content \in DelimDocs \cup {AsDocument(t) \o b : t \in ScalarTexts, b \in Bodies}
          /\ orig = << >>
       \/ /\ entry = "parseYamlBlock"
          /\ content \in BlockTexts \cup ScalarTexts
          /\ orig = << >>
       \/ /\ entry = "parseYamlBlock"
          /\ orig \in EntryLists
          /\ content = Serialize(orig)
    /\ pc = "call"
    /\ lines = << >>
    /\ i = 0
    /\ result = EmptyMap
    /\ ret = Pending
    /\ iters = 0
    /\ log = << >>
    /\ ValidateNotStarted
    /\ ProcessRuns
    /\ CliNotStarted

\* if (!match) return null; return parseYamlBlock(match[1]);
MatchEffect(match) ==
    IF ~match.ok
    THEN /\ ret' = Null
         /\ pc' = "done"
         /\ UNCHANGED lines
    ELSE /\ lines' = Split(match.block)
         /\ pc' = "loop"
         /\ UNCHANGED ret

\* parseFrontmatter(content): null without a match, else parseYamlBlock on
\* the captured block, which starts by splitting it into lines.
ParseFrontmatter ==
    /\ pc = "call"
    /\ entry = "parseFrontmatter"
    /\ MatchEffect(FrontmatterMatch(content))
    /\ UNCHANGED <<entry, content, orig, i, result, iters, log>>
    /\ UNCHANGED <<validateVars, out, exitCode, cliVars>>

\* parseYamlBlock(content) called on its own: lines, result and i are set up.
CallParseYamlBlock ==
    /\ pc = "call"
    /\ entry = "parseYamlBlock"
    /\ lines' = Split(content)
    /\ pc' = "loop"
    /\ UNCHANGED <<entry, content, orig, i, result, ret, iters, log>>
    /\ UNCHANGED <<validateVars, out, exitCode, cliVars>>

\* What an iteration that ends as s leaves in the variables.
IterationEffect(s) ==
    IF s.returns
    THEN /\ i' = s.i
         /\ result' = s.result
         /\ log' = log \o s.assigned
         /\ iters' = iters + 1
         /\ UNCHANGED pc
    ELSE /\ pc' = "nested"
         /\ UNCHANGED <<i, result, log, iters>>

\* One iteration of the while loop of the outer parseYamlBlock call.
LoopIteration ==
    /\ pc = "loop"
    /\ i < Len(lines)
    /\ iters < IterCap
    /\ IterationEffect(LoopBody(lines, i, result))
    /\ UNCHANGED <<entry, content, orig, lines, ret>>
    /\ UNCHANGED <<validateVars, out, exitCode, cliVars>>

\* The loop condition fails: return result.
Return ==
    /\ pc = "loop"
    /\ i >= Len(lines)
    /\ ret' = Obj(result)
    /\ pc' = "done"
    /\ UNCHANGED <<entry, content, orig, lines, i, result, iters, log>>
    /\ UNCHANGED <<validateVars, out, exitCode, cliVars>>

Next == ParseFrontmatter \/ CallParseYamlBlock \/ LoopIteration \/ Return

Spec == Init /\ [][Next]_vars

---------------------------------------------------------------------------
(* Vocabulary of the properties *)

\* The outer loop is about to run an iteration on a key: value line.
AtKeyLine ==
    /\ pc = "loop"
    /\ i < Len(lines)
    /\ ~IsBlank(lines[i + 1])
    /\ ~IsComment(lines[i + 1])
    /\ KvMatch(lines[i + 1]).ok

CurKey == KvMatch(lines[i + 1]).key

CurValue == Trim(KvMatch(lines[i + 1]).value)

\* A line without the \r of a CRLF line end
StripCR(l) == IF Len(l) > 0 /\ l[Len(l)] = "\r" THEN SubSeq(l, 1, Len(l) - 1) ELSE l

StripCRs(ls) == [n \in 1..Len(ls) |-> StripCR(ls[n])]

\* The lines of a document, line ends being \n or \r\n
DocLines(text) == StripCRs(Split(text))

\* The first line is exactly three hyphens.
HasOpening(text) == DocLines(text)[1] = Hyphens3

\* The number of the first line after the first that is exactly three
\* hyphens, 0 when there is none.
ClosingLine(text) ==
    IF \E n \in 2..Len(DocLines(text)) : DocLines(text)[n] = Hyphens3
    THEN CHOOSE n \in 2..Len(DocLines(text)) :
             /\ DocLines(text)[n] = Hyphens3
             /\ \A m \in 2..(n - 1) : DocLines(text)[m] # Hyphens3
    ELSE 0

\* The lines strictly between the opening line and the closing line
LinesBetweenDelimiters(text) == SubSeq(DocLines(text), 2, ClosingLine(text) - 1)

Line(ls) == Join(ls)

---------------------------------------------------------------------------
(* C1 - C5: termination and the delimiters *)

\* C1: every iteration of the line loop of parseYamlBlock strictly advances
\* the line index, whatever the value on the current line, so the call
\* returns.
C1_EveryIterationAdvances ==
    [][(pc = "loop" /\ i < Len(lines)) => i' > i]_vars

\* C2: on a line key: V where V starts with { or [, key holds the parsed
\* structure when V is valid JSON and the raw string V when it is not, and
\* the parser goes on with the line after it.
C2_InlineJsonStoredAndPassed ==
    [][(AtKeyLine /\ IsInlineJson(CurValue)) =>
          /\ CurKey \in DOMAIN result'
          /\ result'[CurKey] = (IF JsonParse(CurValue).ok THEN JsonParse(CurValue).val
                                ELSE Str(CurValue))
          /\ i' = i + 1]_vars

\* C3: a document whose first line is not exactly three hyphens makes
\* parseFrontmatter return null.
C3_NoOpeningLineIsNull ==
    (entry = "parseFrontmatter" /\ pc # "call" /\ ~HasOpening(content))
        => (pc = "done" /\ ret = Null)

\* parseFrontmatter has returned null for "----\na: 1\n---".
C3_Witness ==
    /\ entry = "parseFrontmatter"
    /\ content = Line(<< <<"-", "-", "-", "-">>, <<"a", ":", " ", "1">>, Hyphens3 >>)
    /\ pc = "done"
    /\ ret = Null

\* C4: parseFrontmatter returns null exactly when the opening or the closing
\* delimiter line is missing; an opening line with a later --- line, the
\* empty block included, gives a mapping.
C4_NullIffDelimiterMissing ==
    (entry = "parseFrontmatter" /\ pc = "done")
        => (ret = Null <=> ~(HasOpening(content) /\ ClosingLine(content) # 0))

\* C5: the block handed to parseYamlBlock is the text strictly between the
\* opening line and the first later line that is exactly three hyphens; a
\* line that only begins with three hyphens does not close the block.  (The
\* empty block, which C4 is about, is left out.)
C5_BlockIsBetweenDelimiterLines ==
    (/\ entry = "parseFrontmatter"
     /\ pc # "call"
     /\ ret # Null
     /\ Len(DocLines(content)) >= 2
     /\ DocLines(content)[2] # Hyphens3)
        => /\ ClosingLine(content) # 0
           /\ StripCRs(lines) = LinesBetweenDelimiters(content)

---------------------------------------------------------------------------
(* C6: round trip of string mappings *)

\* A string that is stored as it is written: not empty, no whitespace at
\* either end, no line break, not true / false / | / >, not starting with
\* { or [, and not starting and ending with the same quote character.
PlainString(v) ==
    /\ v # << >>
    /\ Trim(v) = v
    /\ \A n \in 1..Len(v) : v[n] \notin LineTerminators
    /\ v \notin {<<"t", "r", "u", "e">>, <<"f", "a", "l", "s", "e">>, <<"|">>, <<">">>}
    /\ v[1] \notin {"{", "["}
    /\ ~(v[1] \in {"\"", "'"} /\ v[Len(v)] = v[1])

\* C6 as stated: every mapping of strings, written as key: value lines and
\* parsed by parseYamlBlock, comes back equal.
C6_RoundTripAnyString ==
    (pc = "done" /\ orig # << >>) => ret = Obj(MappingOf(orig))

\* C6 amended: a mapping whose values are all plain strings comes back equal.
C6_RoundTripPlainStrings ==
    (pc = "done" /\ orig # << >> /\ \A n \in 1..Len(orig) : PlainString(orig[n][2]))
        => ret = Obj(MappingOf(orig))

\* {a: "\"x", b.c: "x: y"} has come back from its two lines.
C6_Witness ==
    /\ pc = "done"
    /\ orig = << <<<<"a">>, <<"\"", "x">>>>, <<<<"b", ".", "c">>, <<"x", ":", " ", "y">>>> >>
    /\ ret = Obj(MappingOf(orig))
    /\ \A n \in 1..Len(orig) : PlainString(orig[n][2])

---------------------------------------------------------------------------
(* C7, C8: the child block of a key with an empty value *)

\* The number of the line that ends the child block of line k: the first
\* later non-blank line indented no deeper than line k, Len(ls) + 1 when
\* there is none.
BlockEnd(ls, k) ==
    CHOOSE m \in (k + 1)..(Len(ls) + 1) :
        /\ m = Len(ls) + 1 \/ (~IsBlank(ls[m]) /\ Indent(ls[m]) <= Indent(ls[k]))
        /\ \A j \in (k + 1)..(m - 1) : IsBlank(ls[j]) \/ Indent(ls[j]) > Indent(ls[k])

\* The non-blank lines of the child block of line k
ChildBlock(ls, k) ==
    SelectSeq(SubSeq(ls, k + 1, BlockEnd(ls, k) - 1), LAMBDA l : ~IsBlank(l))

\* A child line without the whitespace around it, its dash and the
\* whitespace after the dash
Undashed(l) == IF Trim(l)[1] = "-" THEN Trim(Tail(Trim(l))) ELSE Trim(l)

Items(ch) == Arr([m \in 1..Len(ch) |-> Str(Undashed(ch[m]))])

\* The outer loop is about to run an iteration on a key that opens a block.
AtBlockKey == AtKeyLine /\ OpensBlock(CurValue)

CurBlock == ChildBlock(lines, i + 1)

\* C7 as stated, a dash being the marker: when the first child line starts
\* with a dash, the key maps to the sequence of the child lines, one element
\* per non-blank line, in order, dash and surrounding whitespace stripped.
C7_DashBlockIsSequence ==
    [][(AtBlockKey /\ Len(CurBlock) > 0 /\ Trim(CurBlock[1])[1] = "-") =>
          /\ CurKey \in DOMAIN result'
          /\ result'[CurKey] = Items(CurBlock)]_vars

\* C7 amended: the same when the first child line, trimmed, starts with a
\* dash followed by a space.
C7_DashSpaceBlockIsSequence ==
    [][(AtBlockKey /\ Len(CurBlock) > 0
            /\ StartsWith(Trim(CurBlock[1]), <<"-", " ">>)) =>
          /\ CurKey \in DOMAIN result'
          /\ result'[CurKey] = Items(CurBlock)]_vars

\* "b: |", "  - x", "  -y" has been parsed to {b: ["x", "y"]}.
C7_Witness ==
    /\ pc = "done"
    /\ lines = << <<"b", ":", " ", "|">>, <<" ", " ", "-", " ", "x">>,
                  <<" ", " ", "-", "y">> >>
    /\ ret = Obj(<<"b">> :> Arr(<<Str(<<"x">>), Str(<<"y">>)>>))

\* C8: the child block of a key at indentation n is the run of deeper lines
\* up to the first non-blank line indented <= n; when it does not start with
\* a dash marker the key maps to the block parsed recursively, no other key
\* of the enclosing mapping changes, and the enclosing loop goes on with the
\* line that ended the block.
C8_NestedBlockIsParsedRecursively ==
    [][(AtBlockKey /\ pc' = "loop"
            /\ ~(Len(CurBlock) > 0 /\ StartsWith(Trim(CurBlock[1]), <<"-", " ">>))) =>
          /\ result' = Put(result, CurKey, ParseYamlBlock(Join(CurBlock)))
          /\ i' = BlockEnd(lines, i + 1) - 1]_vars

\* "a:", "  c: 2", "b: 1" has been parsed to {a: {c: "2"}, b: "1"}.
C8_Witness ==
    /\ pc = "done"
    /\ lines = << <<"a", ":">>, <<" ", " ", "c", ":", " ", "2">>, <<"b", ":", " ", "1">> >>
    /\ ret = Obj(<<"a">> :> Obj(<<"c">> :> Str(<<"2">>)) @@ <<"b">> :> Str(<<"1">>))

---------------------------------------------------------------------------
(* C9, C10: scalar values and duplicate keys *)

\* A value that neither opens a block nor is tried as inline JSON
ScalarShaped(v) == ~OpensBlock(v) /\ ~IsInlineJson(v)

\* v is some text between a pair of quote characters q.
WrappedIn(v, q) == Len(v) >= 2 /\ v[1] = q /\ v[Len(v)] = q

\* What C9 says is stored for a scalar value
ExpectedScalar(v) ==
    IF WrappedIn(v, "\"") \/ WrappedIn(v, "'") THEN Str(SubSeq(v, 2, Len(v) - 1))
    ELSE IF v = <<"t", "r", "u", "e">> THEN Bool(TRUE)
    ELSE IF v = <<"f", "a", "l", "s", "e">> THEN Bool(FALSE)
    ELSE Str(v)

\* C9: a scalar value wrapped in matching double or single quotes is stored
\* without the quotes; otherwise true and false are stored as booleans;
\* otherwise the trimmed text is stored unchanged as a string.
C9_ScalarsCoercedInOrder ==
    [][(AtKeyLine /\ ScalarShaped(CurValue)) =>
          /\ CurKey \in DOMAIN result'
          /\ result'[CurKey] = ExpectedScalar(CurValue)]_vars

\* The value of the last assignment to key k in the log
LastWrite(k) ==
    log[CHOOSE n \in 1..Len(log) :
            log[n][1] = k /\ \A m \in (n + 1)..Len(log) : log[m][1] # k][2]

\* C10: the mapping returned holds each key that was assigned once, with the
\* value of the last assignment to it.
C10_LastWriteWins ==
    (pc = "done" /\ ret # Null) =>
        /\ DOMAIN ret.v = {log[n][1] : n \in 1..Len(log)}
        /\ \A k \in DOMAIN ret.v : ret.v[k] = LastWrite(k)

\* "b: |", "  - x", "b: 1": b was a sequence first and is "1" in the end.
C10_Witness ==
    /\ pc = "done"
    /\ lines = << <<"b", ":", " ", "|">>, <<" ", " ", "-", " ", "x">>,
                  <<"b", ":", " ", "1">> >>
    /\ Len(log) = 2
    /\ log[1][2] = Arr(<<Str(<<"x">>)>>)
    /\ ret = Obj(<<"b">> :> Str(<<"1">>))

---------------------------------------------------------------------------
(* C11: parseFrontmatter is parseYamlBlock on the block alone *)

\* A document whose first line is three hyphens, with a later line of three
\* hyphens and, between the two, at least one line, none of which begins
\* with three hyphens.
WellFormedDocument(text) ==
    /\ HasOpening(text)
    /\ ClosingLine(text) > 2
    /\ \A n \in 2..(ClosingLine(text) - 1) : ~StartsWith(DocLines(text)[n], Hyphens3)

\* C11: what parseFrontmatter returns for a document is what parseYamlBlock
\* returns for the block it extracted, and, for a document with a well-formed
\* block, for the text between the delimiter lines: the body and anything
\* parsed before have no part in it.
C11_FrontmatterIsBlockAlone ==
    (entry = "parseFrontmatter" /\ pc = "done" /\ ret # Null) =>
        /\ ret = ParseYamlBlock(FrontmatterMatch(content).block)
        /\ WellFormedDocument(content) =>
               ret = ParseYamlBlock(Join(LinesBetweenDelimiters(content)))

\* "k: x" between the delimiters, "k: 9" and a third delimiter line after
\* them: parseFrontmatter has returned {k: "x"}.
C11_Witness ==
    /\ entry = "parseFrontmatter"
    /\ pc = "done"
    /\ content = AsDocument(<<"k", ":", " ", "x">>) \o <<"k", ":", " ", "9", "\n">>
                      \o Hyphens3 \o <<"\n">>
    /\ WellFormedDocument(content)
    /\ ret = Obj(<<"k">> :> Str(<<"x">>))

---------------------------------------------------------------------------
(* C14: blank lines and comment lines *)

\* ls with the line l put in after its first p lines
InsertAt(ls, p, l) == SubSeq(ls, 1, p) \o <<l>> \o SubSeq(ls, p + 1, Len(ls))

\* Blank lines, and comment lines at three indentations
BlankLines == {<< >>, <<" ", " ">>}

CommentLines ==
    {<<"#", "n">>, <<" ", " ", "#", "n">>, <<" ", " ", " ", " ", "#", "n">>}

\* C14: a blank line or a comment line put in at any position of a block, at
\* any indentation, leaves the mapping parseYamlBlock returns unchanged.
C14_SkippedLinesChangeNothing ==
    (entry = "parseYamlBlock" /\ pc = "done") =>
        \A p \in 0..Len(lines), l \in BlankLines \cup CommentLines :
            ParseYamlBlock(Join(InsertAt(lines, p, l))) = ret

---------------------------------------------------------------------------
(* validate: the JavaScript operations it applies to the values of fm.  A   *)
(* mapping that parseYamlBlock returns holds strings, booleans, sequences   *)
(* of strings and mappings of these: a value parsed by JSON.parse never     *)
(* lets parseYamlBlock return.                                              *)

\* The value of a property that is not there
Undefined == [t |-> "undefined"]

\* The property names validate reads
KeyName == <<"n", "a", "m", "e">>

KeyDescription == <<"d", "e", "s", "c", "r", "i", "p", "t", "i", "o", "n">>

KeyVersion == <<"v", "e", "r", "s", "i", "o", "n">>

KeyMetadata == <<"m", "e", "t", "a", "d", "a", "t", "a">>

KeyOpenclaw == <<"o", "p", "e", "n", "c", "l", "a", "w">>

KeyEmoji == <<"e", "m", "o", "j", "i">>

KeyHomepage == <<"h", "o", "m", "e", "p", "a", "g", "e">>

KeyPrimaryEnv == <<"p", "r", "i", "m", "a", "r", "y", "E", "n", "v">>

KeyAlways == <<"a", "l", "w", "a", "y", "s">>

KeySkillKey == <<"s", "k", "i", "l", "l", "K", "e", "y">>

KeyOs == <<"o", "s">>

KeyRequires == <<"r", "e", "q", "u", "i", "r", "e", "s">>

KeyEnv == <<"e", "n", "v">>

KeyBins == <<"b", "i", "n", "s">>

KeyAnyBins == <<"a", "n", "y", "B", "i", "n", "s">>

KeyConfig == <<"c", "o", "n", "f", "i", "g">>

KeyInstall == <<"i", "n", "s", "t", "a", "l", "l">>

KeyKind == <<"k", "i", "n", "d">>

\* obj.key for a key that no prototype defines: the entry of a mapping,
\* undefined on a string, a boolean and a sequence.  obj?.key is the same,
\* and undefined where obj is undefined.
Get(obj, key) ==
    IF obj.t = "object" /\ key \in DOMAIN obj.v THEN obj.v[key] ELSE Undefined

\* if (x), !x
Truthy(val) ==
    /\ val.t \notin {"undefined", "null"}
    /\ val # Str(<< >>)
    /\ val # Bool(FALSE)

\* array.join(',') over texts
RECURSIVE JoinComma(_)
JoinComma(ts) ==
    IF Len(ts) = 0 THEN << >>
    ELSE IF Len(ts) = 1 THEN ts[1]
    ELSE ts[1] \o <<",">> \o JoinComma(Tail(ts))

\* String(x), as RegExp.prototype.test applies it to its argument
RECURSIVE StringOf(_)
StringOf(val) ==
    CASE val.t = "string"  -> val.v
      [] val.t = "boolean" -> IF val.v THEN <<"t", "r", "u", "e">>
                                       ELSE <<"f", "a", "l", "s", "e">>
      [] val.t = "array"   ->
             JoinComma([n \in 1..Len(val.v) |-> StringOf(val.v[n])])
      [] val.t = "object"  ->
             <<"[", "o", "b", "j", "e", "c", "t", " ", "O", "b", "j", "e", "c", "t", "]">>

\* x.length > n: a string and a sequence have a length; the length of a
\* boolean is undefined, and undefined > n is false.  (A mapping with a key
\* named length is not among the inputs.)
LengthExceeds(val, n) == val.t \in {"string", "array"} /\ Len(val.v) > n

\* s.includes(w)
Contains(s, w) == \E p \in 1..(Len(s) + 1) : HasAt(s, p, w)

\* /^[a-z0-9][a-z0-9-]*$/.test(s)
NameOk(s) ==
    /\ Len(s) >= 1
    /\ s[1] \in Lower \cup Digits
    /\ \A n \in 2..Len(s) : s[n] \in Lower \cup Digits \cup {"-"}

\* /^\d+\.\d+\.\d+/.test(s), from the end p of the first run of digits
SemverTail(s, p, q) ==
    /\ p > 1
    /\ At(s, p) = "."
    /\ q > p + 1
    /\ At(s, q) = "."
    /\ SkipIn(s, q + 1, Digits) > q + 1

SemverMiddle(s, p) == SemverTail(s, p, SkipIn(s, p + 1, Digits))

SemverOk(s) == SemverMiddle(s, SkipIn(s, 1, Digits))

\* /^https?:\/\//.test(s)
UrlOk(s) ==
    \/ StartsWith(s, <<"h", "t", "t", "p", ":", "/", "/">>)
    \/ StartsWith(s, <<"h", "t", "t", "p", "s", ":", "/", "/">>)

\* typeof e === 'string' && /^[A-Z_][A-Z0-9_]*$/.test(e)
EnvNameOk(e) ==
    /\ e.t = "string"
    /\ Len(e.v) >= 1
    /\ e.v[1] \in Upper \cup {"_"}
    /\ \A n \in 2..Len(e.v) : e.v[n] \in Upper \cup Digits \cup {"_"}

\* const validOs
validOs ==
    {<<"m", "a", "c", "o", "s">>, <<"l", "i", "n", "u", "x">>,
     <<"w", "i", "n", "d", "o", "w", "s">>}

\* const validKinds
validKinds ==
    {<<"b", "r", "e", "w">>, <<"n", "o", "d", "e">>, <<"g", "o">>, <<"u", "v">>}

\* The length above which a description draws a warning
DescriptionLimit == 200

\* 50 * 1024 * 1024
SizeLimit == 52428800

---------------------------------------------------------------------------
(* validate: what a stretch of its code does - the lines it writes, the    *)
(* counters it raises, and whether it throws a TypeError before its end.   *)

Quiet == [out |-> << >>, errors |-> 0, warnings |-> 0, throws |-> FALSE]

\* pass(msg), fail(msg), warn(msg), info(msg): a line of that kind
Wrote(kind) == [Quiet EXCEPT !.out = <<kind>>]

\* errors++
ErrorsInc == [Quiet EXCEPT !.errors = 1]

\* warnings++
WarningsInc == [Quiet EXCEPT !.warnings = 1]

\* A call of something that is not a function
TypeError == [Quiet EXCEPT !.throws = TRUE]

\* a, then b unless a threw
Then(a, b) ==
    IF a.throws THEN a
    ELSE [out |-> a.out \o b.out, errors |-> a.errors + b.errors,
          warnings |-> a.warnings + b.warnings, throws |-> b.throws]

\* The stretches of ss one after the other
RECURSIVE Steps(_)
Steps(ss) == IF Len(ss) = 0 THEN Quiet ELSE Then(ss[1], Steps(Tail(ss)))

\* fail(...); errors++;
FailAndCount == Steps(<<Wrote("fail"), ErrorsInc>>)

\* warn(...); warnings++;
WarnAndCount == Steps(<<Wrote("warn"), WarningsInc>>)

\* Required: name
NameCheck(name) ==
    IF ~Truthy(name) THEN FailAndCount
    ELSE IF NameOk(StringOf(name)) THEN Wrote("pass")
    ELSE FailAndCount

\* The pass line of a description: fm.description.substring is a function
\* on a string only.
DescriptionPass(d) == IF d.t = "string" THEN Wrote("pass") ELSE TypeError

\* Required: description
DescriptionCheck(d) ==
    IF ~Truthy(d) THEN FailAndCount
    ELSE Steps(<<IF LengthExceeds(d, DescriptionLimit) THEN WarnAndCount ELSE Quiet,
                 DescriptionPass(d)>>)

\* Required: version
VersionCheck(version) ==
    IF ~Truthy(version) THEN FailAndCount
    ELSE IF SemverOk(StringOf(version)) THEN Wrote("pass")
    ELSE FailAndCount

\* emoji
EmojiCheck(oc) ==
    IF Truthy(Get(oc, KeyEmoji)) THEN Wrote("pass") ELSE WarnAndCount

\* homepage
HomepageCheck(homepage) ==
    IF ~Truthy(homepage) THEN Quiet
    ELSE IF UrlOk(StringOf(homepage)) THEN Wrote("pass")
    ELSE FailAndCount

\* primaryEnv
PrimaryEnvCheck(oc) ==
    IF Truthy(Get(oc, KeyPrimaryEnv)) THEN Wrote("pass")
    ELSE IF LengthExceeds(Get(Get(oc, KeyRequires), KeyEnv), 0) THEN WarnAndCount
    ELSE Quiet

\* always
AlwaysCheck(oc) == IF Get(oc, KeyAlways) # Undefined THEN Wrote("info") ELSE Quiet

\* skillKey
SkillKeyCheck(oc) == IF Truthy(Get(oc, KeySkillKey)) THEN Wrote("info") ELSE Quiet

\* oc.os.forEach(o => ...)
OsEntry(o) == IF o.t = "string" /\ o.v \in validOs THEN Wrote("pass") ELSE FailAndCount

\* os
OsCheck(os) ==
    IF ~Truthy(os) THEN Quiet
    ELSE IF os.t = "array" THEN Steps([n \in 1..Len(os.v) |-> OsEntry(os.v[n])])
    ELSE FailAndCount

\* req.env.forEach(e => ...)
EnvEntry(e) == IF EnvNameOk(e) THEN Wrote("pass") ELSE FailAndCount

\* array.includes(x)
ArrayIncludes(arr, x) == \E n \in 1..Len(arr.v) : arr.v[n] = x

\* Cross-check primaryEnv
PrimaryEnvListed(env, primaryEnv) ==
    IF Truthy(primaryEnv) /\ ~ArrayIncludes(env, primaryEnv) THEN FailAndCount ELSE Quiet

\* requires.env
EnvCheck(env, primaryEnv) ==
    IF ~Truthy(env) THEN Quiet
    ELSE IF env.t = "array"
    THEN Steps(<<Steps([n \in 1..Len(env.v) |-> EnvEntry(env.v[n])]),
                 PrimaryEnvListed(env, primaryEnv)>>)
    ELSE FailAndCount

\* requires.bins, requires.anyBins, requires.config
ListCheck(list) ==
    IF ~Truthy(list) THEN Quiet
    ELSE IF list.t = "array" THEN Steps([n \in 1..Len(list.v) |-> Wrote("pass")])
    ELSE FailAndCount

\* requires
RequiresCheck(req, primaryEnv) ==
    IF ~Truthy(req) THEN WarnAndCount
    ELSE Steps(<<EnvCheck(Get(req, KeyEnv), primaryEnv),
                 ListCheck(Get(req, KeyBins)),
                 ListCheck(Get(req, KeyAnyBins)),
                 ListCheck(Get(req, KeyConfig))>>)

\* oc.install.forEach((spec, idx) => ...)
InstallEntry(kind) ==
    IF ~Truthy(kind) THEN FailAndCount
    ELSE IF ~(kind.t = "string" /\ kind.v \in validKinds) THEN FailAndCount
    ELSE Wrote("pass")

\* install
InstallCheck(install) ==
    IF ~Truthy(install) THEN Quiet
    ELSE IF install.t = "array"
    THEN Steps([n \in 1..Len(install.v) |-> InstallEntry(Get(install.v[n], KeyKind))])
    ELSE FailAndCount

\* The checks of a metadata.openclaw that is there
OpenclawChecks(oc) ==
    Steps(<<EmojiCheck(oc),
            HomepageCheck(Get(oc, KeyHomepage)),
            PrimaryEnvCheck(oc),
            AlwaysCheck(oc),
            SkillKeyCheck(oc),
            OsCheck(Get(oc, KeyOs)),
            RequiresCheck(Get(oc, KeyRequires), Get(oc, KeyPrimaryEnv)),
            InstallCheck(Get(oc, KeyInstall))>>)

\* const oc = fm.metadata?.openclaw
Openclaw(mapping) == Get(Get(mapping, KeyMetadata), KeyOpenclaw)

\* metadata.openclaw
MetadataCheck(mapping) ==
    IF ~Truthy(Get(mapping, KeyMetadata)) THEN WarnAndCount
    ELSE IF ~Truthy(Openclaw(mapping)) THEN WarnAndCount
    ELSE OpenclawChecks(Openclaw(mapping))

\* content.replace(/^---[\s\S]*?---\s*/, '') from the position q of the
\* second run of three hyphens
BodyAfter(text, q) == SubSeq(text, SkipIn(text, q + 3, Spaces), Len(text))

\* const body: the text without its start up to the first later run of three
\* hyphens and the whitespace after it; the text as it is without a match.
BodyOf(text) ==
    IF StartsWith(text, Hyphens3) /\ \E q \in 4..Len(text) : HasAt(text, q, Hyphens3)
    THEN BodyAfter(text, CHOOSE q \in 4..Len(text) :
                             /\ HasAt(text, q, Hyphens3)
                             /\ \A j \in 4..(q - 1) : ~HasAt(text, j, Hyphens3))
    ELSE text

\* body.match(/\{\{[^}]+\}\}/g) from position p on: e is where the run of
\* [^}] that follows the braces at p ends.
RECURSIVE TemplatesFrom(_, _), TemplateAt(_, _, _)
TemplateAt(body, p, e) ==
    IF e > p + 2 /\ HasAt(body, e, <<"}", "}">>)
    THEN <<SubSeq(body, p, e + 1)>> \o TemplatesFrom(body, e + 2)
    ELSE TemplatesFrom(body, p + 1)

TemplatesFrom(body, p) ==
    IF p > Len(body) THEN << >>
    ELSE IF HasAt(body, p, <<"{", "{">>) THEN TemplateAt(body, p, SkipNotIn(body, p + 2, {"}"}))
    ELSE TemplatesFrom(body, p + 1)

\* [...new Set(templates)]: the first occurrence of each, in order
RECURSIVE Unique(_)
Unique(ts) ==
    IF Len(ts) = 0 THEN << >>
    ELSE <<ts[1]>> \o Unique(SelectSeq(Tail(ts), LAMBDA t : t # ts[1]))

\* t.replace(/[{}]/g, '').trim()
VarName(t) == Trim(SelectSeq(t, LAMBDA c : c \notin {"{", "}"}))

\* env.includes(varName): of a string, of a sequence
Includes(env, varName) ==
    IF env.t = "string" THEN Contains(env.v, varName) ELSE ArrayIncludes(env, Str(varName))

\* The check of one template variable, env being oc?.requires?.env:
\* env.includes is a function on a string and on a sequence only.
TemplateCheck(env, varName) ==
    IF ~Truthy(env) THEN Wrote("pass")
    ELSE IF env.t \notin {"string", "array"} THEN TypeError
    ELSE IF ~Includes(env, varName) /\ varName # <<"C", "L", "A", "W", "_", "A", "P", "I", "_", "U", "R", "L">>
    THEN WarnAndCount
    ELSE Wrote("pass")

\* unique.forEach(t => ...)
TemplateChecks(env, ts) ==
    Steps([n \in 1..Len(ts) |-> TemplateCheck(env, VarName(ts[n]))])

\* Body content
BodyCheck(body, env) ==
    Steps(<<IF Len(Trim(body)) = 0 THEN FailAndCount ELSE Wrote("pass"),
            IF Contains(body, <<"{", "{">>) /\ Contains(body, <<"}", "}">>)
            THEN TemplateChecks(env, Unique(TemplatesFrom(body, 1)))
            ELSE Quiet>>)

\* File size
FileSizeCheck(size) == IF size > SizeLimit THEN FailAndCount ELSE Wrote("pass")

---------------------------------------------------------------------------
(* The SKILL.md files validate is run on *)

\* The lines of a field, none when the field is absent
NameFields ==
    { \* (absent)
      << >>,
      \* name: ab
      <<<<"n", "a", "m", "e", ":", " ", "a", "b">>>>,
      \* name: Ab
      <<<<"n", "a", "m", "e", ":", " ", "A", "b">>>>,
      \* name: true
      <<<<"n", "a", "m", "e", ":", " ", "t", "r", "u", "e">>>>,
      \* name:
      <<<<"n", "a", "m", "e", ":">>>>,
      \* name: /   - ab
      <<<<"n", "a", "m", "e", ":">>, <<" ", " ", "-", " ", "a", "b">>>> }

\* description: followed by 201 characters
LongDescription ==
    <<"d", "e", "s", "c", "r", "i", "p", "t", "i", "o", "n", ":", " ">>
        \o [n \in 1..(DescriptionLimit + 1) |-> "x"]

ShortDescriptionFields ==
    { \* (absent)
      << >>,
      \* description: d
      <<<<"d", "e", "s", "c", "r", "i", "p", "t", "i", "o", "n", ":", " ",
        "d">>>>,
      \* description: true
      <<<<"d", "e", "s", "c", "r", "i", "p", "t", "i", "o", "n", ":", " ",
        "t", "r", "u", "e">>>>,
      \* description:
      <<<<"d", "e", "s", "c", "r", "i", "p", "t", "i", "o", "n", ":">>>>,
      \* description: | /   two words
      <<<<"d", "e", "s", "c", "r", "i", "p", "t", "i", "o", "n", ":", " ",
        "|">>, <<" ", " ", "t", "w", "o", " ", "w", "o", "r", "d", "s">>>>,
      \* description: ""
      <<<<"d", "e", "s", "c", "r", "i", "p", "t", "i", "o", "n", ":", " ",
        "\"", "\"">>>> }

DescriptionFields == ShortDescriptionFields \cup {<<LongDescription>>}

VersionFields ==
    { \* (absent)
      << >>,
      \* version: 1.0.0
      <<<<"v", "e", "r", "s", "i", "o", "n", ":", " ", "1", ".", "0", ".",
        "0">>>>,
      \* version: 1.0
      <<<<"v", "e", "r", "s", "i", "o", "n", ":", " ", "1", ".", "0">>>>,
      \* version: true
      <<<<"v", "e", "r", "s", "i", "o", "n", ":", " ", "t", "r", "u", "e">>>>,
      \* version: /   - 1.0.0
      <<<<"v", "e", "r", "s", "i", "o", "n", ":">>, <<" ", " ", "-", " ", "1",
        ".", "0", ".", "0">>>> }

\* metadata: without an openclaw mapping under it
PlainMetadata ==
    { \* (absent)
      << >>,
      \* metadata: x
      <<<<"m", "e", "t", "a", "d", "a", "t", "a", ":", " ", "x">>>>,
      \* metadata: /   k: v
      <<<<"m", "e", "t", "a", "d", "a", "t", "a", ":">>, <<" ", " ", "k", ":",
        " ", "v">>>>,
      \* metadata: /   openclaw: x
      <<<<"m", "e", "t", "a", "d", "a", "t", "a", ":">>, <<" ", " ", "o", "p",
        "e", "n", "c", "l", "a", "w", ":", " ", "x">>>> }

\* The head of a metadata.openclaw mapping; its fields follow, indented by 4
OpenclawHead ==
    <<<<"m", "e", "t", "a", "d", "a", "t", "a", ":">>, <<" ", " ", "o", "p",
      "e", "n", "c", "l", "a", "w", ":">>>>

EmojiFields ==
    { \* (absent)
      << >>,
      \*     emoji: e
      <<<<" ", " ", " ", " ", "e", "m", "o", "j", "i", ":", " ", "e">>>> }

HomepageFields ==
    { \* (absent)
      << >>,
      \*     homepage: https://h.io
      <<<<" ", " ", " ", " ", "h", "o", "m", "e", "p", "a", "g", "e", ":",
        " ", "h", "t", "t", "p", "s", ":", "/", "/", "h", ".", "i", "o">>>>,
      \*     homepage: h.io
      <<<<" ", " ", " ", " ", "h", "o", "m", "e", "p", "a", "g", "e", ":",
        " ", "h", ".", "i", "o">>>> }

FlagFields ==
    { \* (absent)
      << >>,
      \*     always: true /     skillKey: s
      <<<<" ", " ", " ", " ", "a", "l", "w", "a", "y", "s", ":", " ", "t",
        "r", "u", "e">>, <<" ", " ", " ", " ", "s", "k", "i", "l", "l", "K",
        "e", "y", ":", " ", "s">>>> }

PrimaryEnvFields ==
    { \* (absent)
      << >>,
      \*     primaryEnv: A_B
      <<<<" ", " ", " ", " ", "p", "r", "i", "m", "a", "r", "y", "E", "n",
        "v", ":", " ", "A", "_", "B">>>>,
      \*     primaryEnv: C
      <<<<" ", " ", " ", " ", "p", "r", "i", "m", "a", "r", "y", "E", "n",
        "v", ":", " ", "C">>>> }

RequiresFields ==
    { \* (absent)
      << >>,
      \*     requires: x
      <<<<" ", " ", " ", " ", "r", "e", "q", "u", "i", "r", "e", "s", ":",
        " ", "x">>>>,
      \*     requires: /       env: true
      <<<<" ", " ", " ", " ", "r", "e", "q", "u", "i", "r", "e", "s", ":">>,
        <<" ", " ", " ", " ", " ", " ", "e", "n", "v", ":", " ", "t", "r",
        "u", "e">>>>,
      \*     requires: /       env: A_B
      <<<<" ", " ", " ", " ", "r", "e", "q", "u", "i", "r", "e", "s", ":">>,
        <<" ", " ", " ", " ", " ", " ", "e", "n", "v", ":", " ", "A", "_",
        "B">>>>,
      \*     requires: /       env: /         - A_B /         - a
      <<<<" ", " ", " ", " ", "r", "e", "q", "u", "i", "r", "e", "s", ":">>,
        <<" ", " ", " ", " ", " ", " ", "e", "n", "v", ":">>, <<" ", " ", " ",
        " ", " ", " ", " ", " ", "-", " ", "A", "_", "B">>, <<" ", " ", " ",
        " ", " ", " ", " ", " ", "-", " ", "a">>>>,
      \*     requires: /       bins: /         - curl /       anyBins: x /       config: /         - c
      <<<<" ", " ", " ", " ", "r", "e", "q", "u", "i", "r", "e", "s", ":">>,
        <<" ", " ", " ", " ", " ", " ", "b", "i", "n", "s", ":">>, <<" ", " ",
        " ", " ", " ", " ", " ", " ", "-", " ", "c", "u", "r", "l">>, <<" ",
        " ", " ", " ", " ", " ", "a", "n", "y", "B", "i", "n", "s", ":", " ",
        "x">>, <<" ", " ", " ", " ", " ", " ", "c", "o", "n", "f", "i", "g",
        ":">>, <<" ", " ", " ", " ", " ", " ", " ", " ", "-", " ", "c">>>>,
      \*     requires: /       bins: x /       anyBins: /         - b /       config: x
      <<<<" ", " ", " ", " ", "r", "e", "q", "u", "i", "r", "e", "s", ":">>,
        <<" ", " ", " ", " ", " ", " ", "b", "i", "n", "s", ":", " ", "x">>,
        <<" ", " ", " ", " ", " ", " ", "a", "n", "y", "B", "i", "n", "s",
        ":">>, <<" ", " ", " ", " ", " ", " ", " ", " ", "-", " ", "b">>,
        <<" ", " ", " ", " ", " ", " ", "c", "o", "n", "f", "i", "g", ":",
        " ", "x">>>> }

OsFields ==
    { \* (absent)
      << >>,
      \*     os: linux
      <<<<" ", " ", " ", " ", "o", "s", ":", " ", "l", "i", "n", "u", "x">>>>,
      \*     os: /       - linux /       - beos
      <<<<" ", " ", " ", " ", "o", "s", ":">>, <<" ", " ", " ", " ", " ", " ",
        "-", " ", "l", "i", "n", "u", "x">>, <<" ", " ", " ", " ", " ", " ",
        "-", " ", "b", "e", "o", "s">>>> }

InstallFields ==
    { \* (absent)
      << >>,
      \*     install: brew
      <<<<" ", " ", " ", " ", "i", "n", "s", "t", "a", "l", "l", ":", " ",
        "b", "r", "e", "w">>>>,
      \*     install: /       - brew
      <<<<" ", " ", " ", " ", "i", "n", "s", "t", "a", "l", "l", ":">>, <<" ",
        " ", " ", " ", " ", " ", "-", " ", "b", "r", "e", "w">>>> }

\* What follows the frontmatter
BodyTexts ==
    { \* (empty)
      << >>,
      \* text
      <<"t", "e", "x", "t">>,
      \* {{A_B}}
      <<"{", "{", "A", "_", "B", "}", "}">>,
      \* {{X}} {{ X }} {{X}} {{CLAW_API_URL}} {{}}
      <<"{", "{", "X", "}", "}", " ", "{", "{", " ", "X", " ", "}", "}", " ",
        "{", "{", "X", "}", "}", " ", "{", "{", "C", "L", "A", "W", "_", "A",
        "P", "I", "_", "U", "R", "L", "}", "}", " ", "{", "{", "}", "}">> }

\* Name, description and version that pass
GoodFields ==
    <<<<"n", "a", "m", "e", ":", " ", "a", "b">>, <<"d", "e", "s", "c", "r",
      "i", "p", "t", "i", "o", "n", ":", " ", "d">>, <<"v", "e", "r", "s",
      "i", "o", "n", ":", " ", "1", ".", "0", ".", "0">>>>

\* A document: the block between two delimiter lines, then the body
Document(blockLines, body) ==
    Join(<<Hyphens3>> \o blockLines \o <<Hyphens3>>) \o <<"\n">> \o body

\* The required fields in every combination
RequiredFieldDocs ==
    {Document(n \o d \o v, <<"t", "e", "x", "t">>) :
        n \in NameFields, d \in DescriptionFields, v \in VersionFields}

PlainMetadataDocs == {Document(GoodFields \o m, b) : m \in PlainMetadata, b \in BodyTexts}

\* emoji, homepage, always and skillKey
DisplayDocs ==
    {Document(GoodFields \o OpenclawHead \o e \o h \o f, <<"t", "e", "x", "t">>) :
        e \in EmojiFields, h \in HomepageFields, f \in FlagFields}

\* primaryEnv and requires, with the template variables of the body
RequiresDocs ==
    {Document(GoodFields \o OpenclawHead \o p \o r, b) :
        p \in PrimaryEnvFields, r \in RequiresFields, b \in BodyTexts}

\* os and install
PlatformDocs ==
    {Document(GoodFields \o OpenclawHead \o o \o k, <<"t", "e", "x", "t">>) :
        o \in OsFields, k \in InstallFields}

\* Files without a frontmatter validate can read, and one whose frontmatter
\* holds inline JSON
OddDocs ==
    { <<"t", "e", "x", "t">>,
      <<"-", "-", "-", "\n", "n", "a", "m", "e", ":", " ", "a", "b">>,
      <<"-", "-", "-", "x", "\n", "n", "a", "m", "e", ":", " ", "a", "b", "\n",
        "-", "-", "-", "\n">>,
      <<"-", "-", "-", "\n", "n", "a", "m", "e", ":", " ", "a", "b", "\n",
        "m", "e", "t", "a", "d", "a", "t", "a", ":", " ", "{", "}", "\n",
        "-", "-", "-", "\n", "t", "e", "x", "t">> }

ValidateDocs ==
    RequiredFieldDocs \cup PlainMetadataDocs \cup DisplayDocs \cup RequiresDocs
        \cup PlatformDocs \cup OddDocs

---------------------------------------------------------------------------
(* validate(filePath) and the two lines that run it, step by step *)

ValidateInit ==
    /\ entry = "validate"
    /\ content \in ValidateDocs
    /\ ParserNotStarted
    /\ CliNotStarted
    /\ exists \in BOOLEAN
    /\ fileSize \in {Len(content), SizeLimit + 1}
    /\ vpc = "exists"
    /\ fm = Pending
    /\ errors = 0
    /\ warnings = 0
    /\ out = << >>
    /\ returned = NoExit
    /\ exitCode = NoExit

\* fail(...); return 1;
FailAndReturn ==
    /\ out' = Append(out, "fail")
    /\ returned' = 1
    /\ vpc' = "returned"
    /\ UNCHANGED <<fm, errors, warnings>>

\* File exists
CheckFileExists ==
    /\ vpc = "exists"
    /\ IF ~exists THEN FailAndReturn
       ELSE /\ vpc' = "frontmatter"
            /\ UNCHANGED <<fm, errors, warnings, out, returned>>
    /\ UNCHANGED <<parserVars, exists, fileSize, exitCode, cliVars>>

\* const fm = parseFrontmatter(content), which returned val or never
\* returns; if (!fm) ...; pass('Frontmatter delimiters found')
ParsedEffect(val) ==
    IF val = Diverges
    THEN /\ vpc' = "hung"
         /\ UNCHANGED <<fm, errors, warnings, out, returned>>
    ELSE IF val = Null THEN FailAndReturn
    ELSE /\ fm' = val
         /\ out' = Append(out, "pass")
         /\ vpc' = "name"
         /\ UNCHANGED <<errors, warnings, returned>>

\* return parseYamlBlock(match[1]), null without a match
ParseFrontmatterOf(match) == IF match.ok THEN ParseYamlBlock(match.block) ELSE Null

\* Frontmatter
CheckFrontmatter ==
    /\ vpc = "frontmatter"
    /\ IF ~StartsWith(content, Hyphens3) THEN FailAndReturn
       ELSE ParsedEffect(ParseFrontmatterOf(FrontmatterMatch(content)))
    /\ UNCHANGED <<parserVars, exists, fileSize, exitCode, cliVars>>

\* What a stretch of checks that did s leaves in the variables; next is the
\* check after it.
Apply(s, next) ==
    /\ out' = out \o s.out
    /\ errors' = errors + s.errors
    /\ warnings' = warnings + s.warnings
    /\ vpc' = IF s.throws THEN "raised" ELSE next
    /\ UNCHANGED <<parserVars, exists, fileSize, fm, returned, exitCode, cliVars>>

CheckName ==
    /\ vpc = "name"
    /\ Apply(NameCheck(Get(fm, KeyName)), "description")

CheckDescription ==
    /\ vpc = "description"
    /\ Apply(DescriptionCheck(Get(fm, KeyDescription)), "version")

CheckVersion ==
    /\ vpc = "version"
    /\ Apply(VersionCheck(Get(fm, KeyVersion)), "metadata")

CheckMetadata ==
    /\ vpc = "metadata"
    /\ Apply(MetadataCheck(fm), "body")

CheckBody ==
    /\ vpc = "body"
    /\ Apply(BodyCheck(BodyOf(content), Get(Get(Openclaw(fm), KeyRequires), KeyEnv)), "size")

CheckFileSize ==
    /\ vpc = "size"
    /\ Apply(FileSizeCheck(fileSize), "summary")

\* return errors > 0 ? 1 : 0
Summary ==
    /\ vpc = "summary"
    /\ returned' = IF errors > 0 THEN 1 ELSE 0
    /\ vpc' = "returned"
    /\ UNCHANGED <<parserVars, exists, fileSize, fm, errors, warnings, out, exitCode>>
    /\ UNCHANGED cliVars

\* const exitCode = validate(...); process.exit(exitCode)
ProcessExit ==
    /\ vpc = "returned"
    /\ exitCode' = returned
    /\ vpc' = "exited"
    /\ UNCHANGED <<parserVars, exists, fileSize, fm, errors, warnings, out, returned>>
    /\ UNCHANGED cliVars

\* validate threw and nothing catches it: the runtime prints the error and
\* ends the process with status 1.
UncaughtException ==
    /\ vpc = "raised"
    /\ exitCode' = 1
    /\ vpc' = "exited"
    /\ UNCHANGED <<parserVars, exists, fileSize, fm, errors, warnings, out, returned>>
    /\ UNCHANGED cliVars

ValidateNext ==
    \/ CheckFileExists
    \/ CheckFrontmatter
    \/ CheckName
    \/ CheckDescription
    \/ CheckVersion
    \/ CheckMetadata
    \/ CheckBody
    \/ CheckFileSize
    \/ Summary
    \/ ProcessExit
    \/ UncaughtException

ValidateSpec == ValidateInit /\ [][ValidateNext]_vars

---------------------------------------------------------------------------
(* C12, C15: the exit status of the validator *)

\* The number of fail lines written
RECURSIVE FailLines(_)
FailLines(ls) ==
    IF Len(ls) = 0 THEN 0
    ELSE (IF ls[1] = "fail" THEN 1 ELSE 0) + FailLines(Tail(ls))

\* C12: the process ends with status 1 when at least one fail line was
\* written during the run, and with status 0 when none was.
C12_ExitOneIffFailLine ==
    vpc = "exited" =>
        /\ exitCode \in {0, 1}
        /\ exitCode = 1 <=> FailLines(out) > 0

\* name, description and version
RequiredFields == {KeyName, KeyDescription, KeyVersion}

\* A string that is not empty
UsableString(val) == val.t = "string" /\ val.v # << >>

\* C15: whatever mapping the parser returned, validate does not throw, it
\* returns 0 or 1, and it returns 1 after a fail line when a required field
\* is absent or is not a usable string.
C15_ValidateReturnsForEveryMapping ==
    fm # Pending =>
        /\ vpc # "raised"
        /\ vpc = "exited" =>
               /\ returned \in {0, 1}
               /\ (\E f \in RequiredFields : ~UsableString(Get(fm, f))) =>
                      (returned = 1 /\ FailLines(out) > 0)

---------------------------------------------------------------------------
(* cli.js: keys, commands, the remote API and the config file *)

\* How many arguments may follow the command
MaxArgs == 2

\* String.prototype.toLowerCase, letter by letter
UpperLetters ==
    <<"A", "B", "C", "D", "E", "F", "G", "H", "I", "J", "K", "L", "M",
      "N", "O", "P", "Q", "R", "S", "T", "U", "V", "W", "X", "Y", "Z">>

LowerLetters ==
    <<"a", "b", "c", "d", "e", "f", "g", "h", "i", "j", "k", "l", "m",
      "n", "o", "p", "q", "r", "s", "t", "u", "v", "w", "x", "y", "z">>

LowerOf(c) ==
    IF c \in Upper THEN LowerLetters[CHOOSE n \in 1..26 : UpperLetters[n] = c] ELSE c

ToLowerCase(s) == [n \in 1..Len(s) |-> LowerOf(s[n])]

\* CLAW_API_KEY in the environment of the process: unset, empty, or a key
EnvKeys == {Undefined, Str(<< >>), Str(<<"c", "l", "a", "w", "_", "b">>)}

\* 'claw_'
ClawPrefix == <<"c", "l", "a", "w", "_">>

\* What the user may type when asked for the key
KeyInputs ==
    { << >>, <<" ">>, <<"c", "l", "a", "w", "_", "a">>, <<" ", "c", "l", "a", "w", "_", "a", " ">>,
      <<"c", "l", "a", "w", "_", "b">>, <<"z", "z">> }

\* What the user may type when asked whether to set a different key
Answers == {<< >>, <<"n">>, <<"y">>, <<"Y">>, <<" ", "y", " ">>, <<"y", "e", "s">>}

\* The commands of main that call the API, and what they need
ApiCommands == {"status", "list", "draft", "publish", "post", "schedule", "generate"}

WizardCommands == {"setup", "login", "apikey"}

Commands == ApiCommands \cup WizardCommands \cup {"help", "other"}

\* The arguments a command refuses to run without
ArgsRequired(cmd) ==
    CASE cmd \in {"draft", "publish", "post", "generate"} -> 1
      [] cmd = "schedule" -> 2
      [] OTHER -> 0

\* The endpoint a command requests (ID is the post id given)
EndpointOf(cmd) ==
    CASE cmd = "status"   -> "/status"
      [] cmd = "list"     -> "/posts"
      [] cmd = "draft"    -> "/drafts"
      [] cmd = "publish"  -> "/posts/ID/publish"
      [] cmd = "post"     -> "/publish"
      [] cmd = "schedule" -> "/posts/ID/schedule"
      [] cmd = "generate" -> "/ai/generate"

\* The commands that read fields of response.data without testing it
ReadsDataUnguarded(cmd) == cmd \in {"status", "list", "draft", "generate"}

\* How a curl process may end: a success response with its data, a success
\* response without data, a response with success false, output that is not
\* JSON, and output on stderr.
Outcomes == {"ok", "noData", "apiError", "notJson", "stderr"}

\* The outcomes on which makeRequest returns the response
Returns(outcome) == outcome \in {"ok", "noData"}

\* The file at configPath: absent, not readable as a JSON object, or a JSON
\* object whose env.CLAW_API_KEY is key; writable says whether
\* fs.writeFileSync succeeds.
NoFile == [t |-> "absent"]

NotJson == [t |-> "invalid"]

Config(key, writable) == [t |-> "config", key |-> key, writable |-> writable]

ConfigFiles ==
    {NoFile, NotJson, Config(Undefined, TRUE), Config(Str(<<"c", "l", "a", "w", "_", "b">>), TRUE),
     Config(Str(<<"c", "l", "a", "w", "_", "b">>), FALSE)}

\* NoKey that takes the empty string for a key
NoKeyUnsetOnly(key) == key = Undefined

\* if (!API_KEY)
NoKey(key) == ~Truthy(key)

\* KeyAtCall that takes the constant of the module
KeyAtLoad(env, loaded) == loaded

\* makeRequest: const API_KEY = process.env.CLAW_API_KEY, which shadows the
\* constant of the module (loaded)
KeyAtCall(env, loaded) == env

---------------------------------------------------------------------------
(* cli.js: main, makeRequest, the commands and setupWizard, step by step *)

CliInit ==
    /\ entry = "cli"
    /\ content = << >>
    /\ ParserNotStarted
    /\ ValidateNotStarted
    /\ ProcessRuns
    /\ envKey \in EnvKeys
    /\ API_KEY = envKey
    /\ command \in Commands
    /\ argc \in 0..MaxArgs
    /\ cpc = "main"
    /\ caller = ""
    /\ requests = << >>
    /\ thrown = "none"
    /\ inputKey = << >>
    /\ configFile \in ConfigFiles
    /\ configBefore = configFile
    /\ saveCalls = << >>

\* What cli.js leaves alone
CliFrame == UNCHANGED <<parserVars, validateVars, API_KEY, command, argc, configBefore>>

\* process.exit(code), or the end of main with nothing left to run (code 0)
Exit(code) ==
    /\ exitCode' = code
    /\ cpc' = "exited"

\* await makeRequest(...) by who
Await(who) ==
    /\ caller' = who
    /\ cpc' = "makeRequest"

\* main: the switch on the command
Main ==
    /\ cpc = "main"
    /\ IF command \in WizardCommands
       THEN /\ cpc' = "wizard"
            /\ UNCHANGED <<out, exitCode, caller>>
       ELSE IF command \in ApiCommands /\ argc < ArgsRequired(command)
       THEN /\ out' = Append(out, "argumentRequired")
            /\ Exit(1)
            /\ UNCHANGED caller
       ELSE IF command \in ApiCommands
       THEN /\ Await("command")
            /\ UNCHANGED <<out, exitCode>>
       ELSE /\ out' = Append(out, "help")
            /\ Exit(0)
            /\ UNCHANGED caller
    /\ UNCHANGED <<envKey, requests, thrown, inputKey, configFile, saveCalls>>
    /\ CliFrame

\* makeRequest up to execAsync: without a key it throws the setup-required
\* error, with one it spawns curl with the key in the Authorization header.
MakeRequest ==
    /\ cpc = "makeRequest"
    /\ IF NoKey(KeyAtCall(envKey, API_KEY))
       THEN /\ out' = out \o <<"noApiKeyFound", "setupSteps">>
            /\ thrown' = "setupRequired"
            /\ cpc' = "caught"
            /\ UNCHANGED requests
       ELSE /\ requests' = Append(requests,
                                  [endpoint |-> IF caller = "command" THEN EndpointOf(command)
                                                ELSE "/status",
                                   key |-> KeyAtCall(envKey, API_KEY),
                                   outcome |-> "running"])
            /\ cpc' = "curl"
            /\ UNCHANGED <<out, thrown>>
    /\ UNCHANGED <<exitCode, envKey, caller, inputKey, configFile, saveCalls>>
    /\ CliFrame

\* The error makeRequest throws on an outcome that is not a success
ErrorOf(outcome) ==
    CASE outcome = "stderr"   -> "curlError"
      [] outcome = "notJson"  -> "invalidResponse"
      [] outcome = "apiError" -> "apiError"

\* makeRequest from the end of curl: the response is returned, or an error
\* is thrown.
CurlEnds ==
    /\ cpc = "curl"
    /\ \E outcome \in Outcomes :
          /\ requests' = [requests EXCEPT ![Len(requests)].outcome = outcome]
          /\ IF Returns(outcome)
             THEN /\ cpc' = "returned"
                  /\ UNCHANGED thrown
             ELSE /\ cpc' = "caught"
                  /\ thrown' = ErrorOf(outcome)
    /\ UNCHANGED <<out, exitCode, envKey, caller, inputKey, configFile, saveCalls>>
    /\ CliFrame

\* The outcome of the request that ended last
LastOutcome == requests[Len(requests)].outcome

\* A command after its await: it prints the response, or its catch logs the
\* error and calls process.exit(1).  Reading a field of data that is not
\* there throws inside the same try.
CommandEnds ==
    /\ cpc \in {"returned", "caught"}
    /\ caller = "command"
    /\ IF cpc = "returned" /\ ~(LastOutcome = "noData" /\ ReadsDataUnguarded(command))
       THEN /\ out' = Append(out, "success")
            /\ Exit(0)
       ELSE /\ out' = Append(out, "error")
            /\ Exit(1)
    /\ UNCHANGED <<envKey, caller, requests, thrown, inputKey, configFile, saveCalls>>
    /\ CliFrame

\* setupWizard: a key that is already configured is shown and checked.
WizardStart ==
    /\ cpc = "wizard"
    /\ IF Truthy(API_KEY)
       THEN /\ out' = Append(out, "alreadyConfigured")
            /\ Await("wizardCheck")
       ELSE /\ cpc' = "prompt"
            /\ UNCHANGED <<out, caller>>
    /\ UNCHANGED <<exitCode, envKey, requests, thrown, inputKey, configFile, saveCalls>>
    /\ CliFrame

\* setupWizard: after the check of the configured key, whatever it gave, the
\* user is asked whether to set a different key.
AskReconfigure ==
    /\ cpc \in {"returned", "caught"}
    /\ caller = "wizardCheck"
    /\ \E answer \in Answers :
          IF ToLowerCase(Trim(answer)) # <<"y">>
          THEN /\ out' = Append(out, "setupCancelled")
               /\ Exit(0)
          ELSE /\ cpc' = "prompt"
               /\ UNCHANGED <<out, exitCode>>
    /\ UNCHANGED <<envKey, caller, requests, thrown, inputKey, configFile, saveCalls>>
    /\ CliFrame

\* setupWizard: the key is asked for; an empty one ends the process, any
\* other is put into process.env and checked with a /status request.
PromptKey ==
    /\ cpc = "prompt"
    /\ \E typed \in KeyInputs :
          /\ inputKey' = Trim(typed)
          /\ IF Trim(typed) = << >>
             THEN /\ out' = Append(out, "noKeyEntered")
                  /\ Exit(1)
                  /\ UNCHANGED <<envKey, caller>>
             ELSE /\ out' = IF StartsWith(Trim(typed), ClawPrefix) THEN out
                            ELSE Append(out, "doesNotStartWithClaw")
                  /\ envKey' = Str(Trim(typed))
                  /\ Await("wizardValidate")
                  /\ UNCHANGED exitCode
    /\ UNCHANGED <<requests, thrown, configFile, saveCalls>>
    /\ CliFrame

\* saveApiKeyToConfig(apiKey): what it leaves in the file
WrittenConfig(file, apiKey) ==
    IF file.t = "config" /\ file.writable THEN Config(Str(apiKey), TRUE) ELSE file

\* { saved }
Saved(file) == file.t = "config" /\ file.writable

\* setupWizard: after the request that checks the entered key.  A response
\* with its data makes the key valid and it is saved; an error, or a response
\* without data, ends the process with status 1.
ValidationEnds ==
    /\ cpc \in {"returned", "caught"}
    /\ caller = "wizardValidate"
    /\ IF cpc = "returned" /\ LastOutcome = "ok"
       THEN /\ saveCalls' = Append(saveCalls, inputKey)
            /\ configFile' = WrittenConfig(configFile, inputKey)
            /\ out' = out \o <<"keyIsValid",
                               IF Saved(configFile) THEN "savedTo" ELSE "couldNotSave",
                               "setupComplete">>
            /\ Exit(0)
       ELSE /\ out' = out \o <<"validationFailed", "notSaved">>
            /\ Exit(1)
            /\ UNCHANGED <<configFile, saveCalls>>
    /\ UNCHANGED <<envKey, caller, requests, thrown, inputKey>>
    /\ CliFrame

CliNext ==
    \/ Main
    \/ MakeRequest
    \/ CurlEnds
    \/ CommandEnds
    \/ WizardStart
    \/ AskReconfigure
    \/ PromptKey
    \/ ValidationEnds

CliSpec == CliInit /\ [][CliNext]_vars

---------------------------------------------------------------------------
(* C13, C16: the API key *)

\* The message msg was written.
Said(msg) == \E n \in 1..Len(out) : out[n] = msg

\* C13: every curl process is spawned with a key that is set and not empty;
\* a command that calls the API while CLAW_API_KEY is unset or empty gets the
\* setup-required error from makeRequest unless its arguments are missing,
\* spawns nothing and ends with exit status 1.
C13_NoRequestWithoutKey ==
    /\ \A n \in 1..Len(requests) :
           requests[n].key.t = "string" /\ requests[n].key.v # << >>
    /\ (command \in ApiCommands /\ ~Truthy(envKey) /\ cpc = "exited") =>
           /\ exitCode = 1
           /\ requests = << >>
           /\ argc >= ArgsRequired(command) => thrown = "setupRequired"

\* "draft <content>" with CLAW_API_KEY set to the empty string has ended
\* with status 1 on the setup-required error, no curl spawned.
C13_Witness ==
    /\ command = "draft"
    /\ argc = 1
    /\ envKey = Str(<< >>)
    /\ cpc = "exited"
    /\ exitCode = 1
    /\ thrown = "setupRequired"
    /\ requests = << >>

\* C16: each key handed to saveApiKeyToConfig is the key of an earlier
\* /status request that succeeded; the config file changes only by such a
\* call; and when the entered key was empty, the validation failed or the
\* user kept the configured key, there is no such call and the file is as
\* it was, the process ending with status 1 in the first two cases.
C16_SavedOnlyAfterValidation ==
    /\ \A n \in 1..Len(saveCalls) :
           \E m \in 1..Len(requests) :
               requests[m] = [endpoint |-> "/status", key |-> Str(saveCalls[n]),
                              outcome |-> "ok"]
    /\ configFile # configBefore =>
           (saveCalls # << >> /\ configFile.key = Str(saveCalls[Len(saveCalls)]))
    /\ (Said("noKeyEntered") \/ Said("validationFailed") \/ Said("setupCancelled")) =>
           (saveCalls = << >> /\ configFile = configBefore)
    /\ (cpc = "exited" /\ (Said("noKeyEntered") \/ Said("validationFailed"))) =>
           exitCode = 1

\* With claw_b configured the user asked for a different key, entered
\* claw_a, and after a second /status request, made with claw_a, that key
\* is in the config file.
C16_Witness ==
    /\ cpc = "exited"
    /\ exitCode = 0
    /\ API_KEY = Str(<<"c", "l", "a", "w", "_", "b">>)
    /\ Len(requests) = 2
    /\ requests[2].key = Str(<<"c", "l", "a", "w", "_", "a">>)
    /\ saveCalls = <<<<"c", "l", "a", "w", "_", "a">>>>
    /\ configBefore = Config(Str(<<"c", "l", "a", "w", "_", "b">>), TRUE)
    /\ configFile = Config(Str(<<"c", "l", "a", "w", "_", "a">>), TRUE)

=============================================================================
